---- MODULE Spec2Model ----
(***************************************************************************)
(* A model of the CSV ID converter (main.py): the merge-pool builder       *)
(* get_merge_ids, the classifier is_already_converted, the converter        *)
(* convert_csv_with_merge and the batch driver main, run over a file        *)
(* system holding an input/ and a merge/ directory.                         *)
(*                                                                          *)
(* A text is a sequence of code points ("02" is <<48, 50>>), so that the    *)
(* order of sorted() and the conversions of read_csv / astype(str) are      *)
(* computed, not assumed.  A file name is its stem, a sequence of tokens    *)
(* whose last one may be the marker "_converted"; every file is a *.csv.    *)
(* A file's content is [ok, header, rows]: ok is FALSE for a content        *)
(* pd.read_csv raises on (an empty or malformed file).                      *)
(***************************************************************************)
EXTENDS Integers, Sequences, FiniteSets, TLC

\* ------------------------------------------------------------- bounds
MaxRows == 2
MaxMergeRows == 1
MaxRuns == 2

\* ------------------------------------------------------- texts, cells
ID == "ID"
ID_SUBJEKTU == "ID Subjektu"
CONVERTED == "_converted"

\* A cell pandas reads as missing (an empty field, "NA", "NaN", ...).
NA == <<>>
S02 == <<48, 50>>
S10 == <<49, 48>>
SA == <<65>>
Cells == {NA, S02, S10, SA}

Range(s) == {s[i] : i \in DOMAIN s}

IsIntLiteral(c) == c # <<>> /\ \A i \in DOMAIN c : c[i] >= 48 /\ c[i] <= 57

RECURSIVE ParseInt(_)
ParseInt(c) ==
  IF c = <<>> THEN 0
  ELSE 10 * ParseInt(SubSeq(c, 1, Len(c) - 1)) + (c[Len(c)] - 48)

RECURSIVE FormatInt(_)
FormatInt(n) ==
  IF n < 10 THEN <<48 + n>> ELSE Append(FormatInt(n \div 10), 48 + (n % 10))

\* The dtype pd.read_csv infers for a column: integers alone give int64,
\* integers with a missing cell give float64, anything else stays text.
InferDtype(col) ==
  LET present == {i \in DOMAIN col : col[i] # NA}
  IN  IF \A i \in present : IsIntLiteral(col[i])
      THEN (IF present = DOMAIN col THEN "int64" ELSE "float64")
      ELSE "object"

\* astype(str) of one parsed value of a column of dtype d.
astype_str(c, d) ==
  IF d = "int64" THEN FormatInt(ParseInt(c))
  ELSE IF d = "float64" THEN FormatInt(ParseInt(c)) \o <<46, 48>>
  ELSE c

\* df[name]: the cells of the first column called name.
Column(content, name) ==
  LET k == CHOOSE i \in DOMAIN content.header :
             /\ content.header[i] = name
             /\ \A j \in 1..(i - 1) : content.header[j] # name
  IN  [i \in DOMAIN content.rows |-> content.rows[i][k]]

\* set(df[name].dropna().astype(str))
ColumnIds(content, name) ==
  LET col == Column(content, name)
      d == InferDtype(col)
  IN  {astype_str(col[i], d) : i \in {j \in DOMAIN col : col[j] # NA}}

\* Python's < on str: code point by code point, a proper prefix first.
StrLess(s, t) ==
  \E k \in 1..Len(t) :
    /\ \A j \in 1..(k - 1) : j <= Len(s) /\ s[j] = t[j]
    /\ (k > Len(s) \/ s[k] < t[k])

\* A numeric-looking order: the shorter text first.
ShortFirst(s, t) == Len(s) < Len(t) \/ (Len(s) = Len(t) /\ StrLess(s, t))

SortedShortFirst(S) ==
  [i \in 1..Cardinality(S) |->
     CHOOSE x \in S : Cardinality({y \in S : ShortFirst(y, x)}) = i - 1]

\* sorted(list(input_ids)): the i-th element has i - 1 elements before it.
sorted(S) ==
  [i \in 1..Cardinality(S) |->
     CHOOSE x \in S : Cardinality({y \in S : StrLess(y, x)}) = i - 1]

\* ------------------------------------------------------------ files
Csv(h, r) == [ok |-> TRUE, header |-> h, rows |-> r]
Unparseable == [ok |-> FALSE, header |-> <<>>, rows |-> <<>>]

\* output_df.to_csv(output_file, index=False): the header "ID", one row per ID.
to_csv(ids) == Csv(<<ID>>, [i \in DOMAIN ids |-> <<ids[i]>>])

\* What the destination holds when the write is cut short: nothing at all
\* (k = 0), or the header and the first k - 1 rows.
PartialCsv(ids, k) ==
  IF k = 0 THEN Unparseable ELSE to_csv(SubSeq(ids, 1, k - 1))

EndsWithConverted(stem) == Len(stem) > 0 /\ stem[Len(stem)] = CONVERTED

\* f"{stem}_converted{suffix}"
OutputPath(stem) == Append(stem, CONVERTED)

IsAlreadyConvertedByContentOnly(stem, content) ==
  IF ~content.ok THEN FALSE
  ELSE IF content.header = <<ID>> THEN TRUE
  ELSE IF ID_SUBJEKTU \in Range(content.header) THEN FALSE
  ELSE TRUE

is_already_converted(stem, content) ==
  IF EndsWithConverted(stem) THEN TRUE
  ELSE IF ~content.ok THEN FALSE
  ELSE IF Len(content.header) = 1 /\ content.header[1] = ID THEN TRUE
  ELSE IF ID_SUBJEKTU \in Range(content.header) THEN FALSE
  ELSE TRUE

\* One merge file's IDs: the "ID" column first, else "ID Subjektu", else none;
\* a file read_csv raises on gives none.
MergeContribution(content) ==
  IF ~content.ok THEN {}
  ELSE IF ID \in Range(content.header) THEN ColumnIds(content, ID)
  ELSE IF ID_SUBJEKTU \in Range(content.header)
       THEN ColumnIds(content, ID_SUBJEKTU)
  ELSE {}

\* The converter up to its write: ok is FALSE when it returns None.
convert_csv_with_merge(content, pool) ==
  IF ~content.ok THEN [ok |-> FALSE, ids |-> <<>>]
  ELSE IF ID_SUBJEKTU \notin Range(content.header)
       THEN [ok |-> FALSE, ids |-> <<>>]
  ELSE [ok |-> TRUE,
        ids |-> sorted(ColumnIds(content, ID_SUBJEKTU) \cup pool)]

OutputNeverExists(out, fs) == FALSE

\* output_file.exists()
output_exists(out, fs) == out \in DOMAIN fs

WriteFileRemovingInput(fs, f, out, content) ==
  [n \in (DOMAIN fs \ {f}) \cup {out} |-> IF n = out THEN content ELSE fs[n]]

\* The file system after the converter wrote content at out.
WriteFile(fs, f, out, content) ==
  [n \in DOMAIN fs \cup {out} |-> IF n = out THEN content ELSE fs[n]]

CountedWhateverTheResult(result_ok) == 1

\* if result: converted_count += 1
Counted(result_ok) == IF result_ok THEN 1 ELSE 0

\* One pass of main's for loop on file f: the verdict, the files after it,
\* what it adds to the two counters, and the converter call it made.
LoopBody(f, fs, pool) ==
  IF is_already_converted(f, fs[f])
  THEN [verdict |-> "skip_class", files |-> fs, conv |-> 0, skip |-> 1,
        calls |-> {}, ids |-> <<>>]
  ELSE LET out == OutputPath(f) IN
    IF output_exists(out, fs)
    THEN [verdict |-> "skip_exists", files |-> fs, conv |-> 0, skip |-> 1,
          calls |-> {}, ids |-> <<>>]
    ELSE LET r == convert_csv_with_merge(fs[f], pool)
             call == [input |-> f, output |-> out,
                      existed |-> out \in DOMAIN fs]
         IN  IF r.ok
             THEN [verdict |-> "converted",
                   files |-> WriteFile(fs, f, out, to_csv(r.ids)),
                   conv |-> Counted(r.ok), skip |-> 0, calls |-> {call},
                   ids |-> r.ids]
             ELSE [verdict |-> "failed", files |-> fs, conv |-> Counted(r.ok),
                   skip |-> 0, calls |-> {call}, ids |-> <<>>]

\* ------------------------------------------------------------ state
VARIABLES
  inputExists,     \* Path("input").exists()
  files,           \* input/: stem -> content
  mergeExists,     \* Path("merge").exists()
  mergeFiles,      \* merge/: stem -> content
  run,             \* the number of this run of main.py
  pc,              \* "idle", "merge", "loop", "exited"
  outcome,         \* how this run ended: "running", "nodir", "nofiles", "summary", "killed"
  exitStatus,      \* the process's return code: "running", "0", "SIGINT"
  merge_ids,       \* get_merge_ids's set
  mergeTodo,       \* merge files the loop of get_merge_ids has yet to read
  todo,            \* files of csv_files the loop of main has yet to process
  found,           \* len(csv_files)
  converted_count,
  skipped_count,
  verdict,         \* this run: file -> what the loop did with it
  processed,       \* this run: the files in the order the loop took them
  convCalls,       \* this run: the calls of convert_csv_with_merge
  startFiles,      \* input/ as it was when this run started
  files0,          \* input/ as it was before the first run
  prevOutcome      \* the outcome of the run before this one

vars == <<inputExists, files, mergeExists, mergeFiles, run, pc, outcome,
          exitStatus, merge_ids, mergeTodo, todo, found, converted_count,
          skipped_count, verdict, processed, convCalls, startFiles, files0,
          prevOutcome>>

NoFiles == [n \in {} |-> Unparseable]

\* ------------------------------------------------- initial directories
A == <<"a">>
B == <<"b">>
M1 == <<"m1">>
M2 == <<"m2">>

Absent == [ok |-> FALSE, header |-> <<"absent">>, rows |-> <<>>]

\* The directory holding, of the names of assign, those not Absent.
Dir(assign) ==
  [n \in {s \in DOMAIN assign : assign[s] # Absent} |-> assign[n]]

CellSeqs(n) == UNION {[1..k -> Cells] : k \in 0..n}
OneColumn(r) == [i \in DOMAIN r |-> <<r[i]>>]
Permuted(r) == {[i \in DOMAIN r |-> r[p[i]]] : p \in Permutations(DOMAIN r)}

\* Input files of every kind the classifier tells apart.
DriverContents ==
  {Unparseable,
   Csv(<<ID>>, <<<<S02>>>>),
   Csv(<<ID_SUBJEKTU>>, <<<<S10>>, <<S02>>>>),
   Csv(<<"Name", ID_SUBJEKTU>>, <<<<SA, S02>>, <<SA, NA>>>>),
   Csv(<<ID, ID_SUBJEKTU>>, <<<<S10, SA>>>>),
   Csv(<<"Name", "Date">>, <<<<SA, SA>>>>)}

\* Merge files of every kind get_merge_ids tells apart.
MergeContents ==
  {Unparseable,
   Csv(<<"Name", "Date">>, <<<<SA, SA>>>>),
   Csv(<<ID, ID_SUBJEKTU>>, <<<<S02, SA>>>>)}
  \cup {Csv(<<ID>>, OneColumn(r)) : r \in CellSeqs(MaxMergeRows)}
  \cup {Csv(<<ID_SUBJEKTU>>, OneColumn(r)) : r \in CellSeqs(MaxMergeRows)}

\* Any mix of file kinds and names, beside a small merge folder.
InitDriver ==
  /\ inputExists \in BOOLEAN
  /\ files \in IF inputExists
               THEN {Dir(d) : d \in [{A, B, OutputPath(A)} ->
                                       DriverContents \cup {Absent}]}
               ELSE {NoFiles}
  /\ mergeExists \in BOOLEAN
  /\ mergeFiles \in IF mergeExists
                    THEN {NoFiles, (M1 :> Csv(<<ID>>, <<<<S10>>, <<SA>>>>))}
                    ELSE {NoFiles}

\* One input file of any rows, maybe a second one with the same rows in
\* another order, beside at most one merge file.
InitValues ==
  /\ inputExists = TRUE
  /\ \E r \in CellSeqs(MaxRows) :
       files \in {(A :> Csv(<<ID_SUBJEKTU>>, OneColumn(r)))}
                 \cup {(A :> Csv(<<ID_SUBJEKTU>>, OneColumn(r)))
                        @@ (B :> Csv(<<ID_SUBJEKTU>>, OneColumn(q))) :
                       q \in Permuted(r)}
  /\ mergeExists = TRUE
  /\ mergeFiles \in {(M1 :> Csv(<<ID>>, OneColumn(r))) :
                      r \in CellSeqs(MaxMergeRows)}

\* One input file beside any two merge files.
InitMerge ==
  /\ inputExists = TRUE
  /\ files = (A :> Csv(<<ID_SUBJEKTU>>, <<<<S10>>>>))
  /\ mergeExists = TRUE
  /\ mergeFiles \in {Dir(d) : d \in [{M1, M2} -> MergeContents \cup {Absent}]}

Init ==
  /\ (InitDriver \/ InitValues \/ InitMerge)
  /\ run = 1
  /\ pc = "idle"
  /\ outcome = "running"
  /\ exitStatus = "running"
  /\ merge_ids = {}
  /\ mergeTodo = {}
  /\ todo = {}
  /\ found = 0
  /\ converted_count = 0
  /\ skipped_count = 0
  /\ verdict = NoFiles
  /\ processed = <<>>
  /\ convCalls = {}
  /\ startFiles = files
  /\ files0 = files
  /\ prevOutcome = "none"

\* ------------------------------------------------------------ actions
disk == <<inputExists, mergeExists, mergeFiles, files0>>
thisRun == <<run, startFiles, prevOutcome>>
loopVars == <<todo, found, converted_count, skipped_count, verdict,
              processed, convCalls>>

\* main, lines 152-158: no input folder, the run returns at once.
MainNoInput ==
  /\ pc = "idle"
  /\ ~inputExists
  /\ pc' = "exited"
  /\ outcome' = "nodir"
  /\ exitStatus' = "0"
  /\ UNCHANGED <<disk, thisRun, loopVars, files, merge_ids, mergeTodo>>

\* main calls get_merge_ids, which lists merge/*.csv (nothing when the
\* folder is missing).
MainBegin ==
  /\ pc = "idle"
  /\ inputExists
  /\ pc' = "merge"
  /\ merge_ids' = {}
  /\ mergeTodo' = IF mergeExists THEN DOMAIN mergeFiles ELSE {}
  /\ UNCHANGED <<disk, thisRun, loopVars, files, outcome, exitStatus>>

\* get_merge_ids reads one more merge file, in whatever order glob gave.
MergeOne ==
  /\ pc = "merge"
  /\ \E m \in mergeTodo :
       /\ merge_ids' = merge_ids \cup MergeContribution(mergeFiles[m])
       /\ mergeTodo' = mergeTodo \ {m}
  /\ UNCHANGED <<disk, thisRun, loopVars, files, pc, outcome, exitStatus>>

\* get_merge_ids returned; main lists input/*.csv and returns if there is none.
Enumerate ==
  /\ pc = "merge"
  /\ mergeTodo = {}
  /\ IF DOMAIN files = {}
     THEN /\ pc' = "exited"
          /\ outcome' = "nofiles"
          /\ exitStatus' = "0"
          /\ UNCHANGED <<todo, found>>
     ELSE /\ pc' = "loop"
          /\ todo' = DOMAIN files
          /\ found' = Cardinality(DOMAIN files)
          /\ UNCHANGED <<outcome, exitStatus>>
  /\ converted_count' = 0
  /\ skipped_count' = 0
  /\ UNCHANGED <<disk, thisRun, files, merge_ids, mergeTodo, verdict,
                 processed, convCalls>>

\* One pass of the for loop of main.
ProcessFile ==
  /\ pc = "loop"
  /\ \E f \in todo : \E b \in {LoopBody(f, files, merge_ids)} :
       /\ files' = b.files
       /\ converted_count' = converted_count + b.conv
       /\ skipped_count' = skipped_count + b.skip
       /\ verdict' = (f :> b.verdict) @@ verdict
       /\ processed' = Append(processed, f)
       /\ convCalls' = convCalls \cup b.calls
       /\ todo' = todo \ {f}
  /\ UNCHANGED <<disk, thisRun, merge_ids, mergeTodo, found, pc, outcome,
                 exitStatus>>

\* The loop is over: main prints the summary and returns; the interpreter
\* exits with status 0.
Summary ==
  /\ pc = "loop"
  /\ todo = {}
  /\ pc' = "exited"
  /\ outcome' = "summary"
  /\ exitStatus' = "0"
  /\ UNCHANGED <<disk, thisRun, loopVars, files, merge_ids, mergeTodo>>

\* The operator starts main.py again.
Rerun ==
  /\ pc = "exited"
  /\ run < MaxRuns
  /\ run' = run + 1
  /\ pc' = "idle"
  /\ prevOutcome' = outcome
  /\ outcome' = "running"
  /\ exitStatus' = "running"
  /\ startFiles' = files
  /\ merge_ids' = {}
  /\ mergeTodo' = {}
  /\ todo' = {}
  /\ found' = 0
  /\ converted_count' = 0
  /\ skipped_count' = 0
  /\ verdict' = NoFiles
  /\ processed' = <<>>
  /\ convCalls' = {}
  /\ UNCHANGED <<disk, files>>

\* The process is interrupted between two file operations.
Interrupt ==
  /\ pc \in {"merge", "loop"}
  /\ pc' = "exited"
  /\ outcome' = "killed"
  /\ exitStatus' = "SIGINT"
  /\ UNCHANGED <<disk, thisRun, loopVars, files, merge_ids, mergeTodo>>

\* The process is interrupted inside to_csv, which has opened the
\* destination and written only a part of the rows.
InterruptWrite ==
  /\ pc = "loop"
  /\ \E f \in todo : \E b \in {LoopBody(f, files, merge_ids)} :
       /\ b.verdict = "converted"
       /\ \E k \in 0..Len(b.ids) :
            files' = WriteFile(files, f, OutputPath(f), PartialCsv(b.ids, k))
  /\ pc' = "exited"
  /\ outcome' = "killed"
  /\ exitStatus' = "SIGINT"
  /\ UNCHANGED <<disk, thisRun, loopVars, merge_ids, mergeTodo>>

\* The steps of one run of main.py.
RunStep ==
  \/ MainNoInput
  \/ MainBegin
  \/ MergeOne
  \/ Enumerate
  \/ ProcessFile
  \/ Summary

\* The runs of main.py that nobody interrupts.
Next ==
  \/ RunStep
  \/ Rerun

Spec == Init /\ [][Next]_vars

\* The same runs, each of which the operator may interrupt.
NextOrInterrupt ==
  \/ Next
  \/ Interrupt
  \/ InterruptWrite

InterruptSpec == Init /\ [][NextOrInterrupt]_vars

\* ------------------------------------------- the runs left to themselves
FairContents ==
  {Unparseable,
   Csv(<<ID>>, <<<<S02>>>>),
   Csv(<<ID_SUBJEKTU>>, <<<<S10>>, <<S02>>>>),
   Csv(<<"Name", "Date">>, <<<<SA, SA>>>>)}

\* Folders holding files that fail, files that convert and files that are
\* skipped, beside one merge file.
FairInit ==
  /\ Init
  /\ inputExists => mergeExists /\ M1 \in DOMAIN mergeFiles
  /\ \A n \in DOMAIN files : files[n] \in FairContents

\* A run that nobody interrupts goes on as long as it has a step to take:
\* the program is sequential and every step of it returns.  Nothing makes
\* the operator start the batch again.
FairSpec == FairInit /\ [][Next]_vars /\ WF_vars(RunStep)

\* ------------------------------------------------------------ claims
Completed == {"summary", "nofiles", "nodir"}
Front(stem) == SubSeq(stem, 1, Len(stem) - 1)
IdsOf(content) == [i \in DOMAIN content.rows |-> content.rows[i][1]]
Ascending(s) == \A i \in 1..(Len(s) - 1) : StrLess(s[i], s[i + 1])
NoRepeat(s) == \A i, j \in DOMAIN s : i # j => s[i] # s[j]
ConvertedNow == {f \in DOMAIN verdict : verdict[f] = "converted"}

\* The cells of column name as the file's text gives them, the missing dropped.
RawIds(content, name) == {c \in Range(Column(content, name)) : c # NA}

RawContribution(content) ==
  IF ~content.ok THEN {}
  ELSE IF ID \in Range(content.header) THEN RawIds(content, ID)
  ELSE IF ID_SUBJEKTU \in Range(content.header)
       THEN RawIds(content, ID_SUBJEKTU)
  ELSE {}

MergeDir == IF mergeExists THEN DOMAIN mergeFiles ELSE {}

\* The pool as a function of the merge folder alone, whatever the order.
PoolOfDir == UNION {MergeContribution(mergeFiles[m]) : m \in MergeDir}

SameRowsReordered(c1, c2) ==
  /\ c1.header = c2.header
  /\ Len(c1.rows) = Len(c2.rows)
  /\ \A x \in Range(c1.rows) \cup Range(c2.rows) :
       Cardinality({i \in DOMAIN c1.rows : c1.rows[i] = x})
         = Cardinality({i \in DOMAIN c2.rows : c2.rows[i] = x})

\* C1: every converted file's output holds exactly the non-missing values of
\* its "ID Subjektu" column together with the merge pool passed to the
\* converter, each in one row, none missing.
C1_OutputIsUnion ==
  \A f \in ConvertedNow :
    LET out == files[OutputPath(f)]
        ids == IdsOf(out)
    IN  /\ out.ok
        /\ out.header = <<ID>>
        /\ Range(ids) = RawIds(files[f], ID_SUBJEKTU) \cup merge_ids
        /\ NoRepeat(ids)
        /\ NA \notin Range(ids)

\* C2: when two runs in a row both run to completion, the second converts
\* nothing and leaves the input folder exactly as the first left it.
C2_Idempotent ==
  (run >= 2 /\ prevOutcome \in Completed /\ outcome \in Completed)
    => /\ converted_count = 0
       /\ files = startFiles

\* A second completed run skipping a file whose output the first run wrote.
C2_SecondRunSkipsFirstRunsOutput ==
  /\ run = 2
  /\ prevOutcome = "summary"
  /\ outcome = "summary"
  /\ \E f \in DOMAIN verdict :
       /\ verdict[f] = "skip_exists"
       /\ OutputPath(f) \notin DOMAIN files0

C4_Frame ==
  /\ \A n \in DOMAIN startFiles :
       n \in DOMAIN files /\ files[n] = startFiles[n]
  /\ \A n \in DOMAIN files \ DOMAIN startFiles :
       EndsWithConverted(n) /\ Front(n) \in DOMAIN startFiles
  /\ \A c \in convCalls : ~c.existed

\* A finished run that wrote one new output and met one existing output.
C4_RunCreatedAndSkipped ==
  /\ outcome = "summary"
  /\ \E f \in DOMAIN verdict :
       verdict[f] = "converted" /\ OutputPath(f) \notin DOMAIN startFiles
  /\ \E g \in DOMAIN verdict :
       verdict[g] = "skip_exists" /\ OutputPath(g) \in DOMAIN startFiles

\* C5: the rows of an output file ascend strictly in the code point order of
\* their texts; two input files holding the same rows in another order get
\* the same output; and the output is the sorted union of the file's IDs and
\* the merge folder's, whatever order the merge files were read in.
C5_SortedDeterministic ==
  /\ \A f \in ConvertedNow : Ascending(IdsOf(files[OutputPath(f)]))
  /\ \A f, g \in ConvertedNow :
       SameRowsReordered(files[f], files[g])
         => files[OutputPath(f)] = files[OutputPath(g)]
  /\ \A f \in ConvertedNow :
       /\ Range(IdsOf(files[OutputPath(f)]))
            = ColumnIds(files[f], ID_SUBJEKTU) \cup PoolOfDir
       /\ NoRepeat(IdsOf(files[OutputPath(f)]))

\* Two files with the same rows in different orders, both converted to the
\* rows "10", "2".
C5_TenBeforeTwo ==
  \E f, g \in ConvertedNow :
    /\ f # g
    /\ files[f].rows # files[g].rows
    /\ SameRowsReordered(files[f], files[g])
    /\ IdsOf(files[OutputPath(f)]) = <<S10, <<50>>>>

\* C6: the process exits with status 0 after the summary and with another
\* status when the input folder is missing.
C6_ExitStatus ==
  /\ outcome = "summary" => exitStatus = "0"
  /\ outcome = "nodir" => exitStatus # "0"

\* C7: a file pandas cannot parse, its stem not ending with "_converted", is
\* skipped by the classifier: the converter is not called on it and it counts
\* as one skipped file.
C7_UnparseableSkipped ==
  /\ \A f \in DOMAIN verdict :
       (~EndsWithConverted(f) /\ ~files[f].ok)
         => /\ verdict[f] = "skip_class"
            /\ \A c \in convCalls : c.input # f
  /\ skipped_count >= Cardinality({f \in DOMAIN verdict :
                                     ~EndsWithConverted(f) /\ ~files[f].ok})

\* C8: once built, the pool is the union over the merge files of the
\* non-missing values of the "ID" column, or of "ID Subjektu" in a file with
\* no "ID"; a file with neither, or one that does not parse, adds nothing; a
\* missing or empty merge folder gives the empty pool.
C8_PoolIsUnion ==
  (pc = "loop" \/ outcome = "summary")
    => merge_ids = UNION {RawContribution(mergeFiles[m]) : m \in MergeDir}

\* The accounting of C9: in a run that found files, no file is processed
\* twice, the two counters never exceed the number found, at the summary every file of the
\* snapshot has been processed and converted + skipped + failed is the
\* number found; and the run that entered the loop reaches the summary.
C9_Counted ==
  (pc = "loop" \/ outcome = "summary")
    => /\ NoRepeat(processed)
       /\ Range(processed) \subseteq DOMAIN startFiles
       /\ found = Cardinality(DOMAIN startFiles)
       /\ converted_count + skipped_count <= found
       /\ outcome = "summary"
            => /\ Range(processed) = DOMAIN startFiles
               /\ converted_count + skipped_count
                    + Cardinality({f \in DOMAIN verdict :
                                     verdict[f] = "failed"}) = found

\* C9: the accounting above holds throughout, and a run that entered the
\* loop reaches the summary.
C9_Accounting ==
  /\ []C9_Counted
  /\ [](pc = "loop" => <>(outcome = "summary"))

\* A finished run in which a conversion failed and a later one succeeded.
C9_FailureThenConversion ==
  /\ outcome = "summary"
  /\ \E i, j \in DOMAIN processed :
       /\ i < j
       /\ verdict[processed[i]] = "failed"
       /\ verdict[processed[j]] = "converted"

\* C10: a file the program created holds the whole ID list of its input,
\* at every moment after an interrupt too; and no run skips an input on the
\* strength of an output that is not whole.
C10_NoPartialOutput ==
  /\ \A n \in DOMAIN files \ DOMAIN files0 :
       files[n] = to_csv(convert_csv_with_merge(files[Front(n)],
                                                PoolOfDir).ids)
  /\ \A f \in DOMAIN verdict :
       (verdict[f] = "skip_exists" /\ OutputPath(f) \notin DOMAIN files0)
         => files[OutputPath(f)]
              = to_csv(convert_csv_with_merge(files[f], PoolOfDir).ids)
====
